---- MODULE Spec2Model ----
(***************************************************************************)
(* A model of one qbs Session (type Qbs, src/qbs.go): its Criteria, its    *)
(* transaction handle, its sticky first-error slot, and the calls it       *)
(* hands to the Dialect and to the database/sql driver; and a model of the *)
(* package's connection pool with the callers that take handles from it,   *)
(* make Sessions of them and close them.                                   *)
(*                                                                         *)
(* Every public method is one action.  The Dialect, the criteria type,     *)
(* Condition and structPtrToModel live in files of the repository other    *)
(* than qbs.go; they are modelled from the design document and marked so.  *)
(* What the database answers (rows found, rows affected, errors) is input  *)
(* of each action.                                                         *)
(*                                                                         *)
(* The variable "last" is an observation of the most recent call: what was *)
(* handed to the dialect, what the call returned, and the caller's struct  *)
(* before and after.  The caller takes the result (action Return) before   *)
(* its next call.  The variables firstAny, firstListed and txFirst are     *)
(* history variables: they record which failure came first, written down   *)
(* per action and independently of updateTxError.                          *)
(***************************************************************************)
EXTENDS Integers, Sequences, FiniteSets, TLC

\* ------------------------------------------------------------------ bounds

\* Primary keys and generated ids range over 0..MaxPk (0 is the zero value).
MaxPk == 2
\* Limit(n) is called with n in 2..MaxLimit, Offset(n) with n in 1..MaxOffset.
MaxLimit == 2
MaxOffset == 1
\* OrderBy / OrderByDesc are chained at most MaxOrder times per Criteria.
MaxOrder == 1
\* Rows a statement with a user condition may affect: 0..MaxAffected.
MaxAffected == 2
\* A result set has at most MaxRows rows.
MaxRows == 2
\* ChangePoolSize is called at most MaxResize times.
MaxResize == 1

\* ------------------------------------------------------------------ values

Nil == "nil"
DriverErrors == {"e1", "e2"}
ErrNoRows == "sql.ErrNoRows"
ErrInvalid == "invalid"

\* time.Time values: the zero time, an earlier instant, and time.Now().
ZeroTime == "zero"
OldTime == "t0"
Now == "now"

\* The struct types of the callers.  pkKind is the Go type of the primary
\* key field ("none": the struct has no primary key field); stamps: the
\* struct has "created" and "updated" time fields; validator: the type
\* implements Validator.
Types == {"User", "Item", "Tag", "Log"}
TypeInfo(t) ==
    CASE t = "User" -> [pkKind |-> "int64",  stamps |-> TRUE,  validator |-> TRUE]
      [] t = "Item" -> [pkKind |-> "int64",  stamps |-> FALSE, validator |-> FALSE]
      [] t = "Tag"  -> [pkKind |-> "string", stamps |-> FALSE, validator |-> FALSE]
      [] OTHER      -> [pkKind |-> "none",   stamps |-> FALSE, validator |-> FALSE]

\* The values of the fields a scan fills: the zero value, a value the
\* caller's struct held before the call, and the value of a result column.
ZeroValue == ""
OldValue == "old"
RowValue == "row"

\* A struct's Address field, a pointer to a struct with a City field: the
\* nil pointer, and an allocated struct.
NilAddress == [set |-> FALSE, city |-> ZeroValue]
NewAddress == [set |-> TRUE, city |-> ZeroValue]

\* A caller's struct value.  pk = 0 is the zero value of the key (0 or "").
\* valid is what Validate would return nil for.  Every struct has a Name
\* field (a string) and an Address field (a pointer to a struct); a stored
\* Item comes with its Address.
NoStruct == [type |-> "none", pk |-> 0, valid |-> TRUE,
             created |-> ZeroTime, updated |-> ZeroTime,
             name |-> ZeroValue, address |-> NilAddress]
MkStruct(t, k, v) ==
    [type |-> t, pk |-> k, valid |-> v,
     created |-> IF TypeInfo(t).stamps /\ k # 0 THEN OldTime ELSE ZeroTime,
     updated |-> IF TypeInfo(t).stamps /\ k # 0 THEN OldTime ELSE ZeroTime,
     name |-> IF k # 0 THEN OldValue ELSE ZeroValue,
     address |-> IF t = "Item" /\ k # 0
                 THEN [NewAddress EXCEPT !.city = OldValue] ELSE NilAddress]
Structs ==
    {MkStruct(t, k, v) : t \in {"User"}, k \in 0..MaxPk, v \in BOOLEAN}
    \cup {MkStruct(t, k, TRUE) : t \in {"Item", "Tag"}, k \in 0..MaxPk}
    \cup {MkStruct("Log", 0, TRUE)}

\* ------------------------------------------------------------------ Condition

\* A Condition is the sequence of its atoms in the order of the rendered
\* expression; the nil *Condition is the empty sequence.
NilCondition == << >>
NewCondition(expr, arg) == << [expr |-> expr, arg |-> arg] >>
NewEqualCondition(column, value) == << [expr |-> column, arg |-> value] >>
\* c.AndCondition(d): "(c) AND (d)", the receiver first.
AndCondition(c, d) == c \o d

UserWhere == NewCondition("name LIKE ?", 1)
UserEqual == NewEqualCondition("name", 1)

\* ------------------------------------------------------------------ criteria

NoModel == [type |-> "none", pk |-> 0, pkKind |-> "none"]

\* new(criteria): every field at its zero value.
EmptyCriteria ==
    [model |-> NoModel, condition |-> NilCondition, limit |-> 0, offset |-> 0,
     orderBys |-> << >>, omitFields |-> {}, omitJoin |-> FALSE]

\* structPtrToModel: the table, the primary key field and its value.
structPtrToModel(s) ==
    [type |-> s.type, pk |-> s.pk, pkKind |-> TypeInfo(s.type).pkKind]

\* model.pkZero(): no primary key field, or the key at its zero value.
pkZero(m) == m.pkKind = "none" \/ m.pk = 0

\* The primary-key equality condition of a model.
PkCondition(m) == NewCondition("id = ?", m.pk)

\* criteria.mergePkCondition: with a non-zero key, the key condition alone
\* or AND-combined ahead of the user condition; otherwise no change.
mergePkCondition(c) ==
    IF pkZero(c.model) THEN c
    ELSE [c EXCEPT !.condition =
            IF c.condition = NilCondition THEN PkCondition(c.model)
            ELSE AndCondition(PkCondition(c.model), c.condition)]

\* ------------------------------------------------------------------ state

VARIABLES
    criteria,      \* q.criteria
    Tx,            \* q.Tx: 0 is nil, 1 an open *sql.Tx
    firstTxError,  \* q.firstTxError
    driverTxs,     \* transactions begun on the driver and not yet ended
    firstAny,      \* history: the earliest error any operation recorded
    firstListed,   \* history: the earliest error of Prepare/Exec/Query/Commit/Rollback
    txFirst,       \* history: the earliest error since the last Begin
    last           \* observation of the most recent call

\* The connection pool, the callers that take handles from it and make
\* Sessions of them, and the handles.
VARIABLES
    connectionPool, \* the package variable: the channel that is the pool now
    chans,          \* every channel made so far: its capacity and its buffer
    sessions,       \* per caller: where it is, and its Session's Db
    dbs             \* per *sql.DB handle: unopened, open, closed, closed again

SessionVars == <<criteria, Tx, firstTxError, driverTxs, firstAny, firstListed, txFirst, last>>
PoolVars == <<connectionPool, chans, sessions, dbs>>

vars == <<criteria, Tx, firstTxError, driverTxs, firstAny, firstListed, txFirst, last,
          connectionPool, chans, sessions, dbs>>

\* var connectionPool chan *sql.DB = make(chan *sql.DB, 10)
DefaultPoolSize == 10

\* make(chan *sql.DB, size)
MakeChan(size) == [cap |-> size, buf |-> << >>]

\* The callers (goroutines), each making one Session, and the handles
\* sql.Open can give them.
Sessions == {"q1", "q2", "q3"}
Dbs == {"db1", "db2"}

\* The sizes ChangePoolSize is called with.
PoolSizes == {0, 1}

\* What a caller saw of a channel: how many handles its buffer held, and
\* the one that was sent first.
Seen(c) == [len |-> Len(c.buf),
            first |-> IF c.buf = << >> THEN Nil ELSE Head(c.buf)]

\* A caller with no Session.  pc: where the caller is; Db: the handle it
\* got or its Session's q.Db; ch: the channel it read from connectionPool;
\* seen: what it saw of that channel when the GetFreeDB or Close that has
\* just returned acted on it; did: what that Close did; closes: the Close
\* calls on the Session so far.
NoSeen == Seen(MakeChan(0))
NoSession == [pc |-> "start", Db |-> Nil, ch |-> 1, seen |-> NoSeen,
              did |-> "none", closes |-> 0]

\* What an observation keeps of the state before the call.
NoPre == [Tx |-> 0, condition |-> NilCondition, limit |-> 0, txFirst |-> Nil]
Pre == [Tx |-> Tx, condition |-> criteria.condition, limit |-> criteria.limit,
        txFirst |-> txFirst]

\* What the database answered: the state of the row with the struct's key,
\* what Dialect.update and Dialect.insert returned, the error of the driver
\* call of a raw statement, Begin, Commit or Rollback, and the answer to a
\* query.
NoUpdate == [affected |-> 0, err |-> Nil]
NoInsert == [id |-> 0, err |-> Nil]
\* What the database answered to a query: the error of Prepare, the error
\* of stmt.Query, the rows the query matches, and how many of them the
\* iterator delivers (fewer than all: rows.Next() then returns false
\* because the driver failed, and rows.Err() holds the failure).
NoQuery == [prep |-> Nil, query |-> Nil, rows |-> << >>, delivered |-> 0]
NoEnv == [row |-> "none", upd |-> NoUpdate, ins |-> NoInsert, drv |-> Nil,
          q |-> NoQuery]

\* The driver resources of a call: the prepared statement and the rows
\* iterator ("none": never acquired, "open", "closed"), and whether Close
\* was called on a resource that was never acquired.
NoRes == [stmt |-> "none", rows |-> "none", nilClose |-> FALSE]

\* The observation of a call: the statements handed to the dialect, the
\* result, the caller's struct before and after, the caller's slice before
\* and after, and the driver resources.
Obs(op) ==
    [op |-> op, panic |-> FALSE, err |-> Nil, affected |-> 0, calls |-> << >>,
     sIn |-> NoStruct, sOut |-> NoStruct, slIn |-> << >>, slOut |-> << >>,
     pre |-> NoPre, env |-> NoEnv, res |-> NoRes]

\* The observation of a call of op on the current state.
Called(op) == [Obs(op) EXCEPT !.pre = Pre]

\* The same, of a call that is given the struct s.
CalledOn(op, s) == [Called(op) EXCEPT !.sIn = s, !.sOut = s]

\* One statement handed to the dialect, with the Criteria it was rendered from.
Call(kind, c) == [kind |-> kind, condition |-> c.condition, limit |-> c.limit]

Init ==
    /\ criteria = EmptyCriteria
    /\ Tx = 0
    /\ firstTxError = Nil
    /\ driverTxs = 0
    /\ firstAny = Nil
    /\ firstListed = Nil
    /\ txFirst = Nil
    /\ last = Obs("idle")
    /\ connectionPool = 1
    /\ chans = <<MakeChan(DefaultPoolSize)>>
    /\ sessions = [q \in Sessions |-> NoSession]
    /\ dbs = [h \in Dbs |-> "unopened"]

\* ------------------------------------------------------------------ errors

\* updateTxError without the "don't shadow the first error" test.
updateTxErrorShadowing(slot, e) ==
    IF e # Nil THEN e ELSE slot

\* updateTxError: the new value of q.firstTxError after updateTxError(e).
updateTxError(slot, e) ==
    IF e # Nil /\ slot = Nil THEN e ELSE slot

\* The history variables: the earliest non-nil error seen.
Earliest(h, e) == IF h = Nil THEN e ELSE h

\* A failure e (Nil: none) of an operation; listed says whether e is the
\* error of a failing Prepare, Exec, Query, Commit or Rollback.
Record(e, listed) ==
    /\ firstTxError' = updateTxError(firstTxError, e)
    /\ firstAny' = Earliest(firstAny, e)
    /\ firstListed' = IF listed THEN Earliest(firstListed, e) ELSE firstListed
    /\ txFirst' = IF Tx # 0 THEN Earliest(txFirst, e) ELSE txFirst

NoRecord == UNCHANGED <<firstTxError, firstAny, firstListed, txFirst>>

\* ------------------------------------------------------------------ configuration

\* No call is in progress: the caller has taken the last result.
Idle == last.op = "idle"

\* The caller takes the result of the call.  A panic is a fatal abort: the
\* Session is not used again.
Return ==
    /\ ~Idle
    /\ ~last.panic
    /\ last' = Obs("idle")
    /\ UNCHANGED <<criteria, Tx, firstTxError, driverTxs, firstAny, firstListed, txFirst>>
    /\ UNCHANGED PoolVars

Configure(c) ==
    /\ Idle
    /\ criteria' = c
    /\ UNCHANGED <<last, Tx, driverTxs>>
    /\ UNCHANGED PoolVars
    /\ NoRecord

Reset == Configure(EmptyCriteria)

Where == Configure([criteria EXCEPT !.condition = UserWhere])

WhereEqual == Configure([criteria EXCEPT !.condition = UserEqual])

Condition ==
    \E c \in {NilCondition, UserWhere} :
        Configure([criteria EXCEPT !.condition = c])

Limit == \E n \in 2..MaxLimit : Configure([criteria EXCEPT !.limit = n])

Offset == \E n \in 1..MaxOffset : Configure([criteria EXCEPT !.offset = n])

OrderBy ==
    /\ Len(criteria.orderBys) < MaxOrder
    /\ Configure([criteria EXCEPT !.orderBys = Append(@, [path |-> "name", desc |-> FALSE])])

OrderByDesc ==
    /\ Len(criteria.orderBys) < MaxOrder
    /\ Configure([criteria EXCEPT !.orderBys = Append(@, [path |-> "name", desc |-> TRUE])])

OmitFields ==
    \E f \in {{}, {"Name"}} : Configure([criteria EXCEPT !.omitFields = f])

OmitJoin == Configure([criteria EXCEPT !.omitJoin = TRUE])

\* ------------------------------------------------------------------ transactions

\* Begin without its guard.
BeginUnguarded == FALSE

\* Begin's guard: a transaction is already open.
BeginNested == Tx # 0

Begin ==
    \E e \in {Nil} \cup DriverErrors :
        /\ Idle
        /\ driverTxs < 2
        /\ IF BeginNested
           THEN \* panic("cannot start nested transaction")
                /\ e = Nil
                /\ last' = [Called("Begin") EXCEPT !.panic = TRUE]
                /\ UNCHANGED <<Tx, driverTxs, txFirst>>
           ELSE IF e # Nil
           THEN \* q.Tx = tx (nil), then panic(err)
                /\ Tx' = 0
                /\ last' = [Called("Begin") EXCEPT !.panic = TRUE, !.err = e,
                                                   !.env.drv = e]
                /\ UNCHANGED <<driverTxs, txFirst>>
           ELSE /\ Tx' = 1
                /\ driverTxs' = driverTxs + 1
                /\ txFirst' = Nil
                /\ last' = Called("Begin")
        /\ UNCHANGED <<criteria, firstTxError, firstAny, firstListed>>
        /\ UNCHANGED PoolVars

\* What Commit returns.
CommitResult(slot, err) == slot

Commit ==
    \E e \in {Nil} \cup DriverErrors :
        /\ Idle
        /\ UNCHANGED PoolVars
        /\ IF Tx = 0
           THEN \* q.Tx.Commit() on a nil *sql.Tx: a nil dereference
                /\ e = Nil
                /\ last' = [Called("Commit") EXCEPT !.panic = TRUE]
                /\ UNCHANGED <<criteria, Tx, driverTxs>>
                /\ NoRecord
           ELSE \* database/sql ends the transaction whatever the driver answers
                /\ Record(e, TRUE)
                /\ Tx' = 0
                /\ driverTxs' = driverTxs - 1
                /\ last' = [Called("Commit") EXCEPT
                              !.err = CommitResult(firstTxError', e), !.env.drv = e]
                /\ UNCHANGED criteria

\* Rollback returning the sticky slot, as Commit does.
RollbackResultSticky(slot, err) == slot

\* What Rollback returns.
RollbackResult(slot, err) == err

Rollback ==
    \E e \in {Nil} \cup DriverErrors :
        /\ Idle
        /\ UNCHANGED PoolVars
        /\ IF Tx = 0
           THEN /\ e = Nil
                /\ last' = [Called("Rollback") EXCEPT !.panic = TRUE]
                /\ UNCHANGED <<criteria, Tx, driverTxs>>
                /\ NoRecord
           ELSE /\ Record(e, TRUE)
                /\ Tx' = 0
                /\ driverTxs' = driverTxs - 1
                /\ last' = [Called("Rollback") EXCEPT
                              !.err = RollbackResult(firstTxError', e), !.env.drv = e]
                /\ UNCHANGED criteria

\* ------------------------------------------------------------------ raw statements

\* What Prepare / Exec / Query / ContainsValue leave unchanged.
RawFrame == UNCHANGED <<Tx, driverTxs>> /\ UNCHANGED PoolVars

\* Prepare: the driver's error (nil or not) goes through updateTxError.
Prepare ==
    \E e \in {Nil} \cup DriverErrors :
        /\ Idle
        /\ Record(e, TRUE)
        /\ last' = [Called("Prepare") EXCEPT !.err = e, !.env.drv = e]
        /\ UNCHANGED criteria
        /\ RawFrame

\* Query: as Prepare.
Query ==
    \E e \in {Nil} \cup DriverErrors :
        /\ Idle
        /\ Record(e, TRUE)
        /\ last' = [Called("Query") EXCEPT !.err = e, !.env.drv = e]
        /\ UNCHANGED criteria
        /\ RawFrame

\* The resources of Exec: none when Prepare failed (failed = "prepare");
\* otherwise the statement, closed by the deferred stmt.Close().
ExecRes(failed) ==
    IF failed = "prepare" THEN NoRes ELSE [NoRes EXCEPT !.stmt = "closed"]

\* Exec: the Criteria is reset on every path (defer q.Reset()); a failure of
\* Prepare or of stmt.Exec is recorded and returned.
Exec ==
    \E e \in {Nil} \cup DriverErrors :
    \E failed \in {"none", "prepare", "exec"} :
        /\ Idle
        /\ e = Nil <=> failed = "none"
        /\ Record(e, TRUE)
        /\ criteria' = EmptyCriteria
        /\ last' = [Called("Exec") EXCEPT !.err = e, !.env.drv = e,
                                          !.res = ExecRes(failed)]
        /\ RawFrame

\* ContainsValue: QueryRow, then row.Scan, whose error (the failed query's,
\* or sql.ErrNoRows when no row holds the value) goes through updateTxError.
ContainsValue ==
    \E e \in {Nil, ErrNoRows} \cup DriverErrors :
        /\ Idle
        /\ Record(e, e # ErrNoRows)
        /\ last' = [Called("ContainsValue") EXCEPT !.err = e, !.env.drv = e]
        /\ UNCHANGED criteria
        /\ RawFrame

\* ------------------------------------------------------------------ the dialect

\* How many rows the backend reports for "UPDATE ... WHERE id = k": none
\* when no row has the key; on a backend that counts changed rows (cc),
\* none either when the stored values equal the new ones.  A struct with
\* an "updated" field always differs: the field is stamped with time.Now().
RowsAffected(row, cc, stamped) ==
    IF row = "absent" THEN 0
    ELSE IF cc /\ row = "same" /\ ~stamped THEN 0
    ELSE 1

\* Dialect.update for Save: (affected, err).
DialectUpdate(env, stamped) ==
    IF env.uerr # Nil THEN [affected |-> 0, err |-> env.uerr]
    ELSE [affected |-> RowsAffected(env.row, env.cc, stamped), err |-> Nil]

\* Dialect.insert: (id, err).
DialectInsert(env) ==
    IF env.ierr # Nil THEN [id |-> 0, err |-> env.ierr]
    ELSE [id |-> env.gen, err |-> Nil]

\* Dialect.insert, update and delete run their statement through q.Exec:
\* its error e (Nil: none) is recorded and the Criteria is reset.
DialectExec(e) ==
    /\ Record(e, TRUE)
    /\ criteria' = EmptyCriteria

\* What the database may answer to a Save of s.  row: the state of the row
\* with the struct's key; cc: the backend counts changed rows; uerr, ierr:
\* the errors of the UPDATE and of the INSERT; gen: the id the INSERT
\* reports.
SaveEnvs(s) ==
    IF pkZero(structPtrToModel(s))
    THEN {[row |-> "absent", cc |-> FALSE, uerr |-> Nil, ierr |-> e, gen |-> 0] :
              e \in DriverErrors}
         \cup {[row |-> "absent", cc |-> FALSE, uerr |-> Nil, ierr |-> Nil, gen |-> g] :
              g \in 0..MaxPk}
    ELSE {[row |-> r, cc |-> FALSE, uerr |-> e, ierr |-> Nil, gen |-> 0] :
              r \in {"absent", "same"}, e \in DriverErrors}
         \cup {[row |-> r, cc |-> c, uerr |-> Nil, ierr |-> e, gen |-> g] :
              r \in {"absent", "same", "differs"}, c \in BOOLEAN,
              e \in {Nil} \cup DriverErrors, g \in {0, s.pk}}

\* ------------------------------------------------------------------ Save

\* Validate never called, or its error dropped.
ValidationIgnored(s) == FALSE

\* Save, lines 339-344: the struct implements Validator and Validate fails.
ValidationFails(s) == TypeInfo(s.type).validator /\ ~s.valid

\* Save, line 358.
canBeUpdate(model) == ~pkZero(model)

\* The fallback test without "err == nil".
SaveFallsBackOnError(u) == u.affected = 0

\* Save, line 363: the UPDATE's outcome u makes Save fall back to INSERT.
SaveFallsBack(u) == u.affected = 0 /\ u.err = Nil

\* The write-back without the primary key.
SaveWriteBackNoId(s, model, id, isInsert, err) ==
    IF err # Nil THEN s
    ELSE [s EXCEPT
            !.updated = IF TypeInfo(s.type).stamps THEN Now ELSE @,
            !.created = IF isInsert /\ TypeInfo(s.type).stamps THEN Now ELSE @]

\* The write-back without the "err == nil" test.
SaveWriteBackAlways(s, model, id, isInsert, err) ==
    [s EXCEPT
        !.pk = IF model.pkKind = "int64" /\ id # 0 THEN id ELSE @,
        !.updated = IF TypeInfo(s.type).stamps THEN Now ELSE @,
        !.created = IF isInsert /\ TypeInfo(s.type).stamps THEN Now ELSE @]

\* Save, lines 384-400: the caller's struct after the write-back.
SaveWriteBack(s, model, id, isInsert, err) ==
    IF err # Nil THEN s
    ELSE [s EXCEPT
            !.pk = IF model.pkKind = "int64" /\ id # 0 THEN id ELSE @,
            !.updated = IF TypeInfo(s.type).stamps THEN Now ELSE @,
            !.created = IF isInsert /\ TypeInfo(s.type).stamps THEN Now ELSE @]

\* Save, lines 345-402, after validation: the statements handed to the
\* dialect, the result, the struct afterwards and the error to record.
\* preservedCriteria is a pointer to the same criteria object that
\* mergePkCondition then changes in place, so restoring it (line 367)
\* restores the merged condition.
SaveRun(s, env, c) ==
    LET model == structPtrToModel(s)
        c0 == [c EXCEPT !.model = model]
        stamped == TypeInfo(s.type).stamps
    IN  IF canBeUpdate(model)
        THEN LET merged == mergePkCondition(c0)
                 preservedCriteria == merged
                 u == DialectUpdate(env, stamped)
             IN  IF SaveFallsBack(u)
                 THEN LET i == DialectInsert(env)
                      IN  [calls |-> <<Call("update", merged), Call("insert", preservedCriteria)>>,
                           affected |-> IF i.err = Nil THEN 1 ELSE u.affected,
                           err |-> i.err, upd |-> u, ins |-> i,
                           sOut |-> SaveWriteBack(s, model, i.id, TRUE, i.err)]
                 ELSE [calls |-> <<Call("update", merged)>>,
                       affected |-> u.affected,
                       err |-> u.err, upd |-> u, ins |-> NoInsert,
                       sOut |-> SaveWriteBack(s, model, 0, FALSE, u.err)]
        ELSE LET i == DialectInsert(env)
             IN  [calls |-> <<Call("insert", c0)>>,
                  affected |-> IF i.err = Nil THEN 1 ELSE 0,
                  err |-> i.err, upd |-> NoUpdate, ins |-> i,
                  sOut |-> SaveWriteBack(s, model, i.id, TRUE, i.err)]

Save ==
    /\ Idle
    /\ UNCHANGED PoolVars
    /\ \E s \in Structs :
        LET pre == CalledOn("Save", s)
        IN
        IF ValidationFails(s)
        THEN /\ last' = [pre EXCEPT !.err = ErrInvalid]
             /\ UNCHANGED <<criteria, Tx, driverTxs>>
             /\ NoRecord
        ELSE IF structPtrToModel(s).pkKind = "none"
        THEN \* panic("no primary key field")
             /\ last' = [pre EXCEPT !.panic = TRUE]
             /\ UNCHANGED <<criteria, Tx, driverTxs>>
             /\ NoRecord
        ELSE \E env \in SaveEnvs(s) :
             LET r == SaveRun(s, env, criteria)
             IN  /\ DialectExec(r.err)
                 /\ last' = [pre EXCEPT !.err = r.err, !.affected = r.affected,
                                        !.calls = r.calls, !.sOut = r.sOut,
                                        !.env.row = env.row, !.env.upd = r.upd,
                                        !.env.ins = r.ins]
                 /\ UNCHANGED <<Tx, driverTxs>>

\* ------------------------------------------------------------------ Update, Delete

\* Update / Delete without the test for a condition.
UnconstrainedUnchecked(c) == FALSE

\* Update / Delete, lines 420 and 432: no condition to constrain the statement.
Unconstrained(c) == c.condition = NilCondition

\* Update and Delete after validation: the Criteria handed to the dialect.
WriteCriteria(s, c) == mergePkCondition([c EXCEPT !.model = structPtrToModel(s)])

Write(op, kind, validates) ==
    /\ Idle
    /\ UNCHANGED PoolVars
    /\ \E s \in Structs :
        LET pre == CalledOn(op, s)
            c == WriteCriteria(s, criteria)
        IN
        IF validates /\ ValidationFails(s)
        THEN /\ last' = [pre EXCEPT !.err = ErrInvalid]
             /\ UNCHANGED <<criteria, Tx, driverTxs>>
             /\ NoRecord
        ELSE IF Unconstrained(c)
        THEN \* panic("Can not update without condition")
             /\ last' = [pre EXCEPT !.panic = TRUE]
             /\ criteria' = c
             /\ UNCHANGED <<Tx, driverTxs>>
             /\ NoRecord
        ELSE \E e \in {Nil} \cup DriverErrors :
             \E n \in 0..MaxAffected :
                 /\ e # Nil => n = 0
                 /\ DialectExec(e)
                 /\ last' = [pre EXCEPT !.err = e, !.affected = n,
                                        !.calls = <<Call(kind, c)>>,
                                        !.env.upd = [affected |-> n, err |-> e]]
                 /\ UNCHANGED <<Tx, driverTxs>>

Update == Write("Update", "update", TRUE)

Delete == Write("Delete", "delete", FALSE)

\* ------------------------------------------------------------------ Find, FindAll

\* Find with the user condition ahead of the key condition and the
\* caller's limit kept.
FindCriteriaUserFirst(s, c) ==
    LET model == structPtrToModel(s)
        c1 == [c EXCEPT !.model = model]
        idCondition == NewCondition("t.id = ?", model.pk)
    IN  IF ~pkZero(model)
        THEN [c1 EXCEPT !.condition =
                IF c.condition = NilCondition THEN idCondition
                ELSE AndCondition(c.condition, idCondition)]
        ELSE c1

\* Find, lines 159-169: the Criteria handed to Dialect.querySql.
FindCriteria(s, c) ==
    LET model == structPtrToModel(s)
        c1 == [c EXCEPT !.model = model, !.limit = 1]
        idCondition == NewCondition("t.id = ?", model.pk)
    IN  IF ~pkZero(model)
        THEN [c1 EXCEPT !.condition =
                IF c.condition = NilCondition THEN idCondition
                ELSE AndCondition(idCondition, c.condition)]
        ELSE c1

\* ------------------------------------------------------------------ result sets

\* The separator of a joined column's name, and such a name as the
\* sequence of its pieces: <<"address", Sep, "city">> is address___city.
Sep == "___"
Key(parent, child) == <<parent, Sep, child>>

\* One column of a result row: its name, whether its value is NULL, and the
\* error Dialect.setModelValue returns for its value (Nil: it converts).
Column(key, null, err) == [key |-> key, null |-> null, err |-> err]

NameColumn == Column(<<"name">>, FALSE, Nil)

\* The result rows: a column of every sort (a plain column no field is
\* named after, a joined column of the Address field, a joined column whose
\* child names no field, one whose parent names no field, one whose parent
\* names the string field Name), NULL or not, ahead of the name column;
\* and rows whose name value does not convert.
Rows ==
    {<<Column(k, FALSE, Nil), NameColumn>> :
        k \in {<<"extra">>, Key("address", "city"), Key("address", "zip"),
               Key("owner", "name"), Key("name", "x")}}
    \cup {<<Column(Key("owner", "name"), TRUE, Nil), NameColumn>>}
    \cup {<<Column(<<"extra">>, FALSE, Nil), Column(<<"name">>, FALSE, e)>> :
            e \in DriverErrors}

\* rows.Columns(): the names of a row's columns.
Columns(row) == [i \in DOMAIN row |-> row[i].key]

\* A value of the row does not convert.
Unconvertible(row) == \E i \in DOMAIN row : row[i].err # Nil

\* The result sets: at most MaxRows rows, every row with the same columns.
\* The rows are alike, but for a last row that does not convert after rows
\* that do.
ResultSets ==
    {rs \in UNION {[1..k -> Rows] : k \in 0..MaxRows} :
        /\ \A i \in DOMAIN rs : Columns(rs[i]) = Columns(rs[1])
        /\ \A i \in 1..(Len(rs) - 1) : rs[i] = rs[1]
        /\ \/ \A i \in DOMAIN rs : rs[i] = rs[1]
           \/ ~Unconvertible(rs[1]) /\ Unconvertible(rs[Len(rs)])}

\* What the database may answer to a query.
AllQueryEnvs ==
    {[NoQuery EXCEPT !.prep = e] : e \in DriverErrors}
    \cup {[NoQuery EXCEPT !.query = e] : e \in DriverErrors}
    \cup UNION {{[NoQuery EXCEPT !.rows = rs, !.delivered = d] : d \in 0..Len(rs)} :
                   rs \in ResultSets}

\* What the database may answer to a query that asks for at most n rows.
QueryEnvs(n) == {env \in AllQueryEnvs : Len(env.rows) <= n}

\* The rows a query rendered from the Criteria c can match: the LIMIT
\* clause caps them.
RowLimit(c) == IF c.limit = 0 \/ c.limit > MaxRows THEN MaxRows ELSE c.limit

\* ------------------------------------------------------------------ scanRows

\* strings.Split(key, "___"): the pieces of key between the separators.
RECURSIVE Split(_)
Split(key) ==
    IF \A i \in DOMAIN key : key[i] # Sep THEN <<key>>
    ELSE LET i == CHOOSE i \in DOMAIN key :
                     key[i] = Sep /\ \A j \in 1..(i - 1) : key[j] # Sep
         IN  <<SubSeq(key, 1, i - 1)>> \o Split(SubSeq(key, i + 1, Len(key)))

\* snakeToUpperCamel: the struct field name of a column name.  A name that
\* still holds a separator is the name of no field.
snakeToUpperCamel(p) ==
    IF Len(p) # 1 THEN "?"
    ELSE CASE p[1] = "name" -> "Name"
           [] p[1] = "address" -> "Address"
           [] p[1] = "city" -> "City"
           [] p[1] = "zip" -> "Zip"
           [] p[1] = "owner" -> "Owner"
           [] p[1] = "extra" -> "Extra"
           [] OTHER -> "?"

\* rowValue.Elem().FieldByName(name): the kind of the field, "invalid" for
\* the zero Value FieldByName returns when the struct has no such field.
FieldByName(name) ==
    CASE name = "Name" -> "string"
      [] name = "Address" -> "ptr"
      [] OTHER -> "invalid"

\* subStruct.Elem().FieldByName(name).IsValid(): the struct Address points
\* to has the field.
SubFieldIsValid(name) == name = "City"

\* What a scan made of the struct s: the struct, the error, a panic.
Scanned(s, err, panic) == [s |-> s, err |-> err, panic |-> panic]

\* scanRows, lines 250-278: the columns from the i-th on.  reflect's IsNil
\* panics on the zero Value (no field has the parent's name) and on a
\* string.
RECURSIVE scanColumns(_, _, _)
scanColumns(s, row, i) ==
    IF i > Len(row) THEN Scanned(s, Nil, FALSE)
    ELSE
    LET col == row[i]
        paths == Split(col.key)
    IN  IF col.null THEN scanColumns(s, row, i + 1)
        ELSE IF Len(paths) = 2
        THEN LET subStruct == FieldByName(snakeToUpperCamel(paths[1]))
                 subField == snakeToUpperCamel(paths[2])
                 alloc == IF s.address.set THEN s
                          ELSE [s EXCEPT !.address = NewAddress]
             IN  IF subStruct # "ptr" THEN Scanned(s, Nil, TRUE)
                 ELSE IF ~SubFieldIsValid(subField)
                 THEN scanColumns(alloc, row, i + 1)
                 ELSE IF col.err # Nil THEN Scanned(alloc, col.err, FALSE)
                 ELSE scanColumns([alloc EXCEPT !.address.city = RowValue],
                                  row, i + 1)
        ELSE LET field == FieldByName(snakeToUpperCamel(col.key))
             IN  IF field = "invalid" THEN scanColumns(s, row, i + 1)
                 ELSE IF col.err # Nil THEN Scanned(s, col.err, FALSE)
                 ELSE scanColumns(IF field = "string"
                                  THEN [s EXCEPT !.name = RowValue] ELSE s,
                                  row, i + 1)

\* scanRows: one result row into the struct s.
scanRows(s, row) == scanColumns(s, row, 1)

\* ------------------------------------------------------------------ Find, FindAll

\* What doQueryRow / doQueryRows did: the error returned, the error handed
\* to updateTxError, a panic, the caller's struct and slice afterwards, and
\* the driver resources.
Ran(err, rec, panic, s, slice, res) ==
    [err |-> err, rec |-> rec, panic |-> panic, s |-> s, slice |-> slice,
     res |-> res]

\* The resources when Prepare and stmt.Query succeeded: rows.Close() is
\* deferred; nothing closes the statement.
Queried == [stmt |-> "open", rows |-> "closed", nilClose |-> FALSE]

\* The resources when stmt.Query failed: the rows are nil, and the
\* deferred rows.Close() is called on them.
QueryFailed == [stmt |-> "open", rows |-> "none", nilClose |-> TRUE]

\* doQueryRow, lines 184-208.  A failed Prepare or stmt.Query is handed to
\* updateTxError; the deferred rows.Close() on the nil rows of a failed
\* stmt.Query is a nil dereference: the call panics.  rows.Next() returning
\* false is taken as "no rows", rows.Err() is not looked at.  The error of
\* scanRows is returned as it is.
doQueryRow(s, env) ==
    IF env.prep # Nil THEN Ran(env.prep, env.prep, FALSE, s, << >>, NoRes)
    ELSE IF env.query # Nil
    THEN Ran(env.query, env.query, TRUE, s, << >>, QueryFailed)
    ELSE IF env.delivered = 0
    THEN Ran(ErrNoRows, Nil, FALSE, s, << >>, Queried)
    ELSE LET r == scanRows(s, env.rows[1])
         IN  Ran(r.err, Nil, r.panic, r.s, << >>, Queried)

\* doQueryRows, lines 228-235: the loop over the rows the iterator
\* delivers, each scanned into a new struct of type t and appended.
RECURSIVE scanAll(_, _, _, _)
scanAll(slice, t, rows, i) ==
    IF i > Len(rows) THEN Scanned(slice, Nil, FALSE)
    ELSE LET r == scanRows(MkStruct(t, 0, TRUE), rows[i])
         IN  IF r.panic \/ r.err # Nil THEN Scanned(slice, r.err, r.panic)
             ELSE scanAll(Append(slice, r.s), t, rows, i + 1)

\* doQueryRows, lines 210-237.
doQueryRows(slice, t, env) ==
    IF env.prep # Nil THEN Ran(env.prep, env.prep, FALSE, NoStruct, slice, NoRes)
    ELSE IF env.query # Nil
    THEN Ran(env.query, env.query, TRUE, NoStruct, slice, QueryFailed)
    ELSE LET r == scanAll(slice, t, SubSeq(env.rows, 1, env.delivered), 1)
         IN  Ran(r.err, Nil, r.panic, NoStruct, r.s, Queried)

\* The call of doQueryRow / doQueryRows with the query rendered from the
\* Criteria c: what it leaves on the Session.  The Criteria is reset on
\* every path (defer q.Reset()).
DoQuery(pre, c, kind, env, r) ==
    /\ Record(r.rec, TRUE)
    /\ criteria' = EmptyCriteria
    /\ last' = [pre EXCEPT
                  !.calls = <<Call(kind, c)>>,
                  !.panic = r.panic,
                  !.err = r.err,
                  !.sOut = r.s,
                  !.slOut = r.slice,
                  !.res = r.res,
                  !.env.q = env]
    /\ UNCHANGED <<Tx, driverTxs>>
    /\ UNCHANGED PoolVars

Find ==
    /\ Idle
    /\ \E s \in Structs :
        LET c == FindCriteria(s, criteria)
        IN  \E env \in QueryEnvs(RowLimit(c)) :
                DoQuery(CalledOn("Find", s), c, "query", env, doQueryRow(s, env))

\* The slices FindAll is given: of pointers to User or to Item, empty or
\* holding an element already.
SliceTypes == {"User", "Item"}
Slices(t) == {<< >>, <<MkStruct(t, 0, TRUE)>>}

\* FindAll: the model comes from a fresh struct of the slice's element
\* type, so no key condition is merged and the limit is the caller's.
FindAll ==
    /\ Idle
    /\ \E t \in SliceTypes :
       \E slice \in Slices(t) :
        LET c == [criteria EXCEPT !.model = structPtrToModel(MkStruct(t, 0, TRUE))]
        IN  \E env \in QueryEnvs(RowLimit(c)) :
                DoQuery([Called("FindAll") EXCEPT !.slIn = slice], c, "queryAll",
                        env, doQueryRows(slice, t, env))

\* ------------------------------------------------------------------ connection pool

\* The caller q moves on: its record becomes s.
Step(q, s) == sessions' = [sessions EXCEPT ![q] = s]

\* A send on the channel c would not block.
HasSpaceAlways(c) == TRUE

\* A send on the channel c would not block: its buffer has room.  (With
\* capacity 0 a send needs a receiver that is already waiting, and the
\* receive of GetFreeDB never waits.)
HasSpace(c) == Len(c.buf) < c.cap

\* GetFreeDB, line 41: the channel expression of the receive is evaluated;
\* the caller has read the package variable.
GetFreeDBLoad ==
    \E q \in Sessions :
        /\ sessions[q].pc = "start"
        /\ Step(q, [sessions[q] EXCEPT !.pc = "recv", !.ch = connectionPool])
        /\ UNCHANGED <<connectionPool, chans, dbs>>
        /\ UNCHANGED SessionVars

\* GetFreeDB, lines 40-45: the select on the channel read before: the
\* oldest handle in its buffer, or nil at once when the buffer is empty.
GetFreeDB ==
    \E q \in Sessions :
        LET s == sessions[q]
            c == chans[s.ch]
        IN  /\ s.pc = "recv"
            /\ IF c.buf = << >>
               THEN /\ Step(q, [s EXCEPT !.pc = "got", !.Db = Nil, !.seen = Seen(c)])
                    /\ UNCHANGED chans
               ELSE /\ Step(q, [s EXCEPT !.pc = "got", !.Db = Head(c.buf),
                                         !.seen = Seen(c)])
                    /\ chans' = [chans EXCEPT ![s.ch].buf = Tail(@)]
            /\ UNCHANGED <<connectionPool, dbs>>
            /\ UNCHANGED SessionVars

\* New, lines 27-34, called with the handle GetFreeDB returned, or, when it
\* returned nil, with a handle the caller opens (or with nil, when the
\* caller could not open one).
New ==
    \E q \in Sessions :
    \E h \in Dbs \cup {Nil} :
        LET s == sessions[q]
        IN  /\ s.pc = "got"
            /\ IF s.Db # Nil THEN h = s.Db
               ELSE h # Nil => dbs[h] = "unopened"
            /\ Step(q, [s EXCEPT !.pc = "active", !.Db = h, !.ch = 1,
                                 !.seen = NoSeen])
            /\ dbs' = IF s.Db = Nil /\ h # Nil
                      THEN [dbs EXCEPT ![h] = "open"] ELSE dbs
            /\ UNCHANGED <<connectionPool, chans>>
            /\ UNCHANGED SessionVars

\* Close, line 456: the channel expression of the send is evaluated.  The
\* Session is closed once, or once more after that.
CloseLoad ==
    \E q \in Sessions :
        LET s == sessions[q]
        IN  /\ s.pc \in {"active", "closed"}
            /\ s.closes <= 1
            /\ Step(q, [s EXCEPT !.pc = "send", !.ch = connectionPool,
                                 !.seen = NoSeen, !.did = "none"])
            /\ UNCHANGED <<connectionPool, chans, dbs>>
            /\ UNCHANGED SessionVars

\* sql.DB.Close on a handle.
DbClose(state) == IF state = "open" THEN "closed" ELSE "closed again"

\* Close, lines 454-462: nothing for a nil q.Db; otherwise the select on
\* the channel read before: q.Db is sent when that would not block, and
\* closed when it would.  q.Db stays set.
Close ==
    \E q \in Sessions :
        LET s == sessions[q]
            c == chans[s.ch]
            done == [s EXCEPT !.pc = "closed", !.closes = @ + 1, !.seen = Seen(c)]
        IN  /\ s.pc = "send"
            /\ IF s.Db = Nil
               THEN /\ Step(q, [done EXCEPT !.did = "none"])
                    /\ UNCHANGED <<chans, dbs>>
               ELSE IF HasSpace(c)
               THEN /\ Step(q, [done EXCEPT !.did = "pooled"])
                    /\ chans' = [chans EXCEPT ![s.ch].buf = Append(@, s.Db)]
                    /\ UNCHANGED dbs
               ELSE /\ Step(q, [done EXCEPT !.did = "closed"])
                    /\ dbs' = [dbs EXCEPT ![s.Db] = DbClose(@)]
                    /\ UNCHANGED chans
            /\ UNCHANGED connectionPool
            /\ UNCHANGED SessionVars

\* ChangePoolSize, lines 49-51: the package variable is given a new, empty
\* channel.  Nothing synchronises the assignment with the callers that
\* have read the variable: they go on with the channel they read.
ChangePoolSize ==
    \E size \in PoolSizes :
        /\ Len(chans) <= MaxResize
        /\ chans' = Append(chans, MakeChan(size))
        /\ connectionPool' = Len(chans) + 1
        /\ UNCHANGED <<sessions, dbs>>
        /\ UNCHANGED SessionVars

\* ------------------------------------------------------------------ specifications

\* A Session outside a transaction, with every Criteria configuration.
Next ==
    \/ Reset \/ Where \/ WhereEqual \/ Condition \/ Limit \/ Offset
    \/ OrderBy \/ OrderByDesc \/ OmitFields \/ OmitJoin
    \/ Find \/ FindAll \/ Save \/ Update \/ Delete \/ Exec
    \/ Return

Spec == Init /\ [][Next]_vars

\* A Session with transactions; statements run with the Criteria a Where
\* may have set.
NextTx ==
    \/ Begin \/ Commit \/ Rollback
    \/ Prepare \/ Query \/ Exec \/ ContainsValue
    \/ Where \/ Find \/ FindAll \/ Save \/ Update \/ Delete
    \/ Return

SpecTx == Init /\ [][NextTx]_vars

\* The callers of the connection pool.
NextPool ==
    \/ GetFreeDBLoad \/ GetFreeDB \/ New
    \/ CloseLoad \/ Close \/ ChangePoolSize

SpecPool == Init /\ [][NextPool]_vars

\* ------------------------------------------------------------------ claims

\* The kinds of the statements a call handed to the dialect, in order.
Kinds(calls) == [i \in DOMAIN calls |-> calls[i].kind]

HasPk(s) == TypeInfo(s.type).pkKind # "none"

\* C1: a Save of a struct with a zero-valued primary key (validation
\* passing) hands the dialect exactly one INSERT and no UPDATE; when the
\* INSERT succeeds Save returns (1, nil) and an integer key field holds the
\* id the INSERT reported.
C1_ZeroKeyInserts ==
    (/\ last.op = "Save" /\ HasPk(last.sIn) /\ last.sIn.pk = 0
     /\ ~ValidationFails(last.sIn))
    => /\ Kinds(last.calls) = <<"insert">>
       /\ last.env.ins.err = Nil =>
             /\ last.err = Nil
             /\ last.affected = 1
             /\ TypeInfo(last.sIn.type).pkKind = "int64" =>
                    last.sOut.pk = last.env.ins.id

C1_Witness ==
    /\ last.op = "Save" /\ last.sIn.type = "User" /\ last.sIn.pk = 0
    /\ Kinds(last.calls) = <<"insert">>
    /\ last.err = Nil /\ last.affected = 1 /\ last.sOut.pk = MaxPk

\* C2: a Save of a struct with a non-zero primary key hands the dialect an
\* UPDATE first; an INSERT follows exactly when the UPDATE returned
\* (0, nil); when the UPDATE returns an error no INSERT is issued and Save
\* returns that error.  (When Validate fails Save issues no statement at
\* all and returns the validation error.)
C2_UpdateFirst ==
    (last.op = "Save" /\ ~last.panic /\ last.sIn.pk # 0)
    => IF ValidationFails(last.sIn)
       THEN last.calls = << >> /\ last.err = ErrInvalid
       ELSE /\ Kinds(last.calls) \in {<<"update">>, <<"update", "insert">>}
            /\ Kinds(last.calls) = <<"update", "insert">>
                  <=> (last.env.upd.affected = 0 /\ last.env.upd.err = Nil)
            /\ last.env.upd.err # Nil =>
                  (Kinds(last.calls) = <<"update">> /\ last.err = last.env.upd.err)

C2_Witness ==
    /\ last.op = "Save" /\ last.sIn.pk # 0
    /\ Kinds(last.calls) = <<"update">>
    /\ last.env.upd.err \in DriverErrors /\ last.err = last.env.upd.err

\* C3 as stated: a Save of a struct whose non-zero primary key matches an
\* existing row hands the dialect an UPDATE only, also when the new values
\* equal the stored ones, returns the UPDATE's affected-row count and leaves
\* the key unchanged.
C3_ExistingRowUpdatesOnly ==
    (/\ last.op = "Save" /\ ~last.panic /\ last.sIn.pk # 0
     /\ ~ValidationFails(last.sIn)
     /\ last.env.row \in {"same", "differs"})
    => /\ Kinds(last.calls) = <<"update">>
       /\ last.affected = last.env.upd.affected
       /\ last.sOut.pk = last.sIn.pk

\* C7 as stated: after every executing call that returns, the Criteria is a
\* fresh empty one.
C7_CriteriaFreshAfterCall ==
    (last.op \in {"Find", "FindAll", "Save", "Update", "Delete", "Exec"} /\ ~last.panic)
    => criteria = EmptyCriteria

\* C9: every statement Update or Delete hands the dialect carries a
\* condition; with no user condition and a zero-valued key nothing reaches
\* the dialect: the call panics (or, Update only, has already returned the
\* validation error).
C9_NeverUnconstrained ==
    last.op \in {"Update", "Delete"}
    => /\ \A i \in DOMAIN last.calls : last.calls[i].condition # NilCondition
       /\ (last.pre.condition = NilCondition /\ pkZero(structPtrToModel(last.sIn)))
          => /\ last.calls = << >>
             /\ \/ last.panic
                \/ /\ last.op = "Update" /\ ValidationFails(last.sIn)
                   /\ last.err = ErrInvalid

C9_Witness ==
    /\ last.op = "Delete" /\ last.panic /\ last.calls = << >>
    /\ last.pre.condition = NilCondition /\ last.sIn.pk = 0

\* C10: Find hands the dialect one query with limit 1; its condition is,
\* for a non-zero key, the key condition followed by the user condition
\* (the key condition alone when there is none), and for a zero-valued key
\* the user condition unchanged.
C10_FindCondition ==
    last.op = "Find"
    => /\ Kinds(last.calls) = <<"query">>
       /\ last.calls[1].limit = 1
       /\ last.calls[1].condition =
            IF HasPk(last.sIn) /\ last.sIn.pk # 0
            THEN <<[expr |-> "t.id = ?", arg |-> last.sIn.pk]>> \o last.pre.condition
            ELSE last.pre.condition

C10_Witness ==
    /\ last.op = "Find" /\ last.sIn.pk # 0
    /\ last.pre.condition = UserWhere /\ last.pre.limit = MaxLimit
    /\ Len(last.calls[1].condition) = 2 /\ last.calls[1].limit = 1

C5_CommitReturnsFirstOfTransaction ==
    (last.op = "Commit" /\ ~last.panic) => last.err = txFirst

C8_OneTransaction ==
    /\ driverTxs <= 1
    /\ Tx # 0 <=> driverTxs = 1
    /\ (last.op = "Begin" /\ last.pre.Tx # 0)
       => (last.panic /\ Tx = last.pre.Tx /\ driverTxs = 1)
    /\ (last.op \in {"Commit", "Rollback"} /\ ~last.panic)
       => (Tx = 0 /\ driverTxs = 0 /\ ~BeginNested)

C8_Witness ==
    /\ last.op = "Begin" /\ last.pre.Tx # 0 /\ last.panic
    /\ Tx # 0 /\ driverTxs = 1

\* C11 as stated: Find returns sql.ErrNoRows exactly when the query was
\* executed and matched no row, and then leaves the caller's struct as it
\* was; a driver failure while preparing, executing or iterating is never
\* reported as sql.ErrNoRows.
C11_NoRowsExactlyWhenNoneMatched ==
    (last.op = "Find" /\ ~last.panic)
    => /\ last.err = ErrNoRows
          <=> /\ last.env.q.prep = Nil /\ last.env.q.query = Nil
              /\ last.env.q.rows = << >>
       /\ last.err = ErrNoRows => last.sOut = last.sIn

\* C12 as stated: after a FindAll that returns nil the caller's slice is
\* its contents before the call followed by one new element per row the
\* query matched, in result order.
C12_FindAllDeliversEveryRow ==
    (last.op = "FindAll" /\ ~last.panic /\ last.err = Nil)
    => LET n == Len(last.slIn)
           rows == last.env.q.rows
       IN  /\ Len(last.slOut) = n + Len(rows)
           /\ SubSeq(last.slOut, 1, n) = last.slIn
           /\ \A i \in DOMAIN rows :
                 last.slOut[n + i]
                    = scanRows(MkStruct(last.slOut[n + i].type, 0, TRUE), rows[i]).s

\* The callers that hold the handle h: they got it from GetFreeDB or made
\* a Session of it, and no Close on that Session has returned.
Holders(h) ==
    {q \in Sessions : /\ sessions[q].Db = h
                      /\ sessions[q].pc \in {"got", "active", "send"}
                      /\ sessions[q].closes = 0}

\* How many times the handle h is in the pool.
Pooled(h) ==
    LET buf == chans[connectionPool].buf
    IN  Cardinality({i \in DOMAIN buf : buf[i] = h})

\* C13 as stated: every handle that was opened is in exactly one place:
\* held by one caller, in the pool once, or closed (once).
C13_EveryHandleInOnePlace ==
    \A h \in Dbs :
        dbs[h] # "unopened"
        => /\ dbs[h] # "closed again"
           /\ Cardinality(Holders(h)) + Pooled(h)
                + (IF dbs[h] = "closed" THEN 1 ELSE 0) = 1

\* C14: no channel ever buffers more handles than its capacity; GetFreeDB
\* returns, in its one step on the channel, nil exactly when the buffer is
\* empty and otherwise the handle that was sent first; Close, in its one
\* step, sends the handle when the buffer has room and closes it when the
\* buffer is full.
C14_BoundedNonBlockingFifo ==
    /\ \A i \in DOMAIN chans : Len(chans[i].buf) <= chans[i].cap
    /\ \A q \in Sessions :
        LET s == sessions[q]
        IN  /\ s.pc = "got"
               => /\ s.Db = Nil <=> s.seen.len = 0
                  /\ s.Db = s.seen.first
            /\ (s.pc = "closed" /\ s.Db # Nil)
               => /\ s.did = IF s.seen.len < chans[s.ch].cap
                             THEN "pooled" ELSE "closed"
                  /\ s.did = "closed" => dbs[s.Db] # "open"

\* GetFreeDB has returned the first of the two handles in the pool, which
\* keeps the other; and a Close found a pool full and closed its handle.
C14_Witness ==
    \E q, r \in Sessions :
        /\ sessions[q].pc = "got" /\ sessions[q].seen.len = 2
        /\ sessions[q].Db = sessions[q].seen.first
        /\ chans[sessions[q].ch].buf # <<sessions[q].Db>>
        /\ sessions[r].pc = "closed" /\ sessions[r].did = "closed"

\* C15 as stated: when Find, FindAll or Exec is over, on every path, no
\* statement and no rows iterator it acquired is still open, and no Close
\* was called on a resource it never acquired.
C15_ResourcesReleased ==
    last.op \in {"Find", "FindAll", "Exec"}
    => /\ last.res.stmt # "open"
       /\ last.res.rows # "open"
       /\ ~last.res.nilClose

\* C16 as stated: inside a transaction, a driver error that Find, FindAll,
\* Exec, Query or Prepare returns, a row-scan or conversion error included,
\* is in the sticky slot when the call is over, so that the Commit which
\* follows returns an error.
C16_ReturnedErrorsAreSticky ==
    (/\ last.op \in {"Find", "FindAll", "Exec", "Query", "Prepare"}
     /\ ~last.panic /\ last.pre.Tx # 0 /\ last.err \in DriverErrors)
    => /\ firstTxError # Nil
       /\ CommitResult(firstTxError, Nil) # Nil

\* C17: a Save or an Update of a struct that implements Validator and whose
\* Validate returns an error returns that error with affected = 0 and does
\* nothing else: it does not panic, hands no statement to the dialect or to
\* the driver, and leaves the caller's struct as it was.
C17_ValidationFirst ==
    (/\ last.op \in {"Save", "Update"}
     /\ TypeInfo(last.sIn.type).validator /\ ~last.sIn.valid)
    => /\ ~last.panic
       /\ last.err = ErrInvalid /\ last.affected = 0
       /\ last.calls = << >>
       /\ last.env = NoEnv /\ last.res = NoRes
       /\ last.sOut = last.sIn

\* An Update of an invalid struct with a zero-valued key and no condition,
\* which would panic if Validate did not come first.
C17_Witness ==
    /\ last.op = "Update" /\ ~last.sIn.valid /\ last.sIn.pk = 0
    /\ last.pre.condition = NilCondition
    /\ last.err = ErrInvalid /\ ~last.panic /\ last.calls = << >>

\* The names of the columns that match no destination: a plain column no
\* field is named after, a joined column whose child names no field of the
\* nested struct, one whose parent names no field, and one whose parent
\* names a field that is no struct pointer.
UnmatchedKeys ==
    {<<"extra">>, Key("address", "zip"), Key("owner", "name"), Key("name", "x")}

\* C18 as stated: when the row Find scans starts with a non-NULL column
\* that matches no destination, the column is ignored: no error, no abort,
\* and the scan goes on to fill the Name field from the next column.
C18_UnmatchedColumnsIgnored ==
    (/\ last.op = "Find" /\ last.env.q.delivered = 1
     /\ last.env.q.rows[1][1].key \in UnmatchedKeys
     /\ ~last.env.q.rows[1][1].null
     /\ ~Unconvertible(last.env.q.rows[1]))
    => /\ ~last.panic /\ last.err = Nil
       /\ last.sOut.name = RowValue

\* C19 as stated: when Save falls back to INSERT, the Criteria the INSERT is
\* rendered from, and the Criteria left on the Session, carry the condition
\* the caller had set before Save, without the key condition merged for
\* the UPDATE.
C19_FallbackInsertPristine ==
    (last.op = "Save" /\ Kinds(last.calls) = <<"update", "insert">>)
    => /\ last.calls[2].condition = last.pre.condition
       /\ criteria.condition = last.pre.condition

\* C20: when Save returns an error (of Validate, of the UPDATE, of the
\* INSERT or of the fallback INSERT) the caller's struct is as it was
\* before the call: key, "created" and "updated" included.
C20_FailedSaveLeavesStruct ==
    (last.op = "Save" /\ ~last.panic /\ last.err # Nil)
    => /\ last.sOut = last.sIn
       /\ last.sOut.pk = last.sIn.pk
       /\ last.sOut.created = last.sIn.created
       /\ last.sOut.updated = last.sIn.updated

\* A Save of a stored User whose UPDATE affects no row and whose fallback
\* INSERT fails.
C20_Witness ==
    /\ last.op = "Save" /\ last.sIn.type = "User" /\ last.sIn.pk # 0
    /\ Kinds(last.calls) = <<"update", "insert">>
    /\ last.err \in DriverErrors /\ last.env.ins.err = last.err
    /\ last.sOut.updated = OldTime /\ last.sOut.created = OldTime

====
